---- MODULE Spec2Model ----
(***************************************************************************)
(* A model of analyze_drafter_site.details.Analyzer: the syntax-tree       *)
(* visitor that collects dataclasses, routes, component use, call edges    *)
(* and attribute usage, the second pass that resolves dataclass            *)
(* dependencies, and the dataclass analysis report.                        *)
(*                                                                         *)
(* Strings are sequences of lexical tokens: an identifier is one token,    *)
(* and "[", "]", ",", " ", "." are tokens of their own.  Every string      *)
(* operation of the source (split, index, rindex, strip, lower, in) acts   *)
(* on these tokens as the source's acts on characters.                     *)
(*                                                                         *)
(* A dict is a sequence of <<key, value>> pairs in insertion order; a      *)
(* defaultdict is a function whose domain is the set of keys present.      *)
(***************************************************************************)
EXTENDS Integers, Sequences, FiniteSets, TLC

VARIABLES
    dataclasses,      \* Analyzer.dataclasses: dict name -> ClassInfo
    routes,           \* Analyzer.routes: list of RouteInfo
    current_route,    \* Analyzer.current_route: index into routes, 0 for None
    function_calls,   \* Analyzer.function_calls: defaultdict(set)
    components_used,  \* Analyzer.components_used: defaultdict(int)
    attribute_usage,  \* Analyzer.attribute_usage: defaultdict of defaultdict(int)
    pc,               \* position in analyze: "visit", ("resolve",) then "done"
    stack,            \* the open frames, innermost last: of the enclosing
                      \* FunctionDefs, and of _extract_type_references
    pending,          \* children generic_visit must visit next, in order; the
                      \* calls the second pass must make next
    node,             \* the node visited last
    size,             \* what of the source text has been read so far
    report,           \* result of the last generate_dataclass_analysis
    run,              \* 1 for the first Analyzer, 2 for a second one on the same text
    code,             \* the nodes of the source text, kept for a second run
    first             \* the finished model of the first Analyzer

vars == <<dataclasses, routes, current_route, function_calls, components_used,
          attribute_usage, pc, stack, pending, node, size, report, run, code,
          first>>

----------------------------------------------------------------------------
(* Bounds of the model. *)

\* annotated assignments in the whole source text (type specification)
MaxFieldDecls == 2
\* class declarations in the source text (type specification)
MaxClassDefs == 2

----------------------------------------------------------------------------
(* dict: insertion-ordered key/value pairs *)

DictKeys(d) == {d[i][1] : i \in DOMAIN d}

DictIndex(d, k) == CHOOSE i \in DOMAIN d : d[i][1] = k

DictGet(d, k) == d[DictIndex(d, k)][2]

\* d[k] = v: a key already present keeps its place
DictPut(d, k, v) ==
    IF k \in DictKeys(d) THEN [d EXCEPT ![DictIndex(d, k)] = <<k, v>>]
    ELSE Append(d, <<k, v>>)

DictValues(d) == [i \in DOMAIN d |-> d[i][2]]

----------------------------------------------------------------------------
(* str *)

\* c in s
Contains(s, c) == \E i \in DOMAIN s : s[i] = c

\* s.index(c), 0-based; called only when c is in s
Index(s, c) == (CHOOSE i \in DOMAIN s : s[i] = c /\ \A j \in 1..(i - 1) : s[j] # c) - 1

\* s.rindex(c), 0-based; called only when c is in s
RIndex(s, c) == (CHOOSE i \in DOMAIN s : s[i] = c /\ \A j \in (i + 1)..Len(s) : s[j] # c) - 1

\* s[a:b] for 0 <= a, 0 <= b
Slice(s, a, b) == SubSeq(s, a + 1, IF b > Len(s) THEN Len(s) ELSE b)

\* s.split(c): the list of the pieces between the occurrences of c
RECURSIVE Split(_, _)
Split(s, c) ==
    IF ~Contains(s, c) THEN <<s>>
    ELSE <<Slice(s, 0, Index(s, c))>> \o Split(Slice(s, Index(s, c) + 1, Len(s)), c)

\* s.strip()
RECURSIVE Strip(_)
Strip(s) ==
    IF s = <<>> THEN s
    ELSE IF Head(s) = " " THEN Strip(Tail(s))
    ELSE IF s[Len(s)] = " " THEN Strip(SubSeq(s, 1, Len(s) - 1))
    ELSE s

\* ", ".join(parts)
RECURSIVE JoinCommaSpace(_)
JoinCommaSpace(parts) ==
    IF parts = <<>> THEN <<>>
    ELSE IF Len(parts) = 1 THEN parts[1]
    ELSE parts[1] \o <<",", " ">> \o JoinCommaSpace(Tail(parts))

\* str.lower() of one character: the 26 upper-case letters of the ASCII
\* alphabet, in which the identifiers of the texts are written
LowerChar(c) ==
    CASE c = "A" -> "a"
      [] c = "B" -> "b"
      [] c = "C" -> "c"
      [] c = "D" -> "d"
      [] c = "E" -> "e"
      [] c = "F" -> "f"
      [] c = "G" -> "g"
      [] c = "H" -> "h"
      [] c = "I" -> "i"
      [] c = "J" -> "j"
      [] c = "K" -> "k"
      [] c = "L" -> "l"
      [] c = "M" -> "m"
      [] c = "N" -> "n"
      [] c = "O" -> "o"
      [] c = "P" -> "p"
      [] c = "Q" -> "q"
      [] c = "R" -> "r"
      [] c = "S" -> "s"
      [] c = "T" -> "t"
      [] c = "U" -> "u"
      [] c = "V" -> "v"
      [] c = "W" -> "w"
      [] c = "X" -> "x"
      [] c = "Y" -> "y"
      [] c = "Z" -> "z"
      [] OTHER -> c

\* str.lower() of one token, character by character
RECURSIVE LowerToken(_)
LowerToken(t) ==
    IF t = "" THEN ""
    ELSE LowerChar(SubSeq(t, 1, 1)) \o LowerToken(SubSeq(t, 2, Len(t)))

\* s.lower()
Lower(s) == [i \in DOMAIN s |-> LowerToken(s[i])]

\* the str whose text is the identifier id
Str(id) == <<id>>

----------------------------------------------------------------------------
(* ast nodes of annotations *)

Name(id) == [t |-> "Name", id |-> id]

Subscript(value, slice) == [t |-> "Subscript", value |-> value, slice |-> slice]

Tuple(elts) == [t |-> "Tuple", elts |-> elts]

\* a literal: value is its text, one token or "" (isstr: a str literal)
Constant(value, isstr) == [t |-> "Constant", value |-> value, isstr |-> isstr]

\* a str literal whose text has several tokens (a quoted annotation)
StrConstant(text) == [t |-> "Str", text |-> text]

\* str(value) of a literal
StrOfValue(value) == IF value = "" THEN <<>> ELSE <<value>>

Attribute(value, attr, ctx) ==
    [t |-> "Attribute", value |-> value, attr |-> attr, ctx |-> ctx]

Call(func, args) == [t |-> "Call", func |-> func, args |-> args]

\* any other expression, with its ast.unparse text
OtherAnn(text) == [t |-> "Other", text |-> text]

\* get_type_name with every slice rendered, a Subscript slice included
RECURSIVE TypeNameOfAnySlice(_)
TypeNameOfAnySlice(annotation) ==
    CASE annotation.t = "Name" -> Str(annotation.id)
      [] annotation.t = "Subscript" ->
            LET base == TypeNameOfAnySlice(annotation.value)
                sl   == annotation.slice
            IN  IF sl.t = "Tuple"
                THEN base \o <<"[">>
                     \o JoinCommaSpace([i \in DOMAIN sl.elts |->
                                           TypeNameOfAnySlice(sl.elts[i])])
                     \o <<"]">>
                ELSE base \o <<"[">> \o TypeNameOfAnySlice(sl) \o <<"]">>
      [] annotation.t = "Constant" -> StrOfValue(annotation.value)
      [] annotation.t = "Str" -> annotation.text
      [] annotation.t = "Attribute" ->
            TypeNameOfAnySlice(annotation.value) \o <<".", annotation.attr>>
      [] OTHER -> annotation.text

RECURSIVE get_type_name(_)
get_type_name(annotation) ==
    CASE annotation.t = "Name" -> Str(annotation.id)
      [] annotation.t = "Subscript" ->
            LET base == get_type_name(annotation.value)
                sl   == annotation.slice
            IN  IF sl.t = "Name" THEN base \o <<"[", sl.id, "]">>
                ELSE IF sl.t = "Tuple"
                THEN base \o <<"[">>
                     \o JoinCommaSpace([i \in DOMAIN sl.elts |-> get_type_name(sl.elts[i])])
                     \o <<"]">>
                ELSE base
      [] annotation.t = "Constant" -> StrOfValue(annotation.value)
      [] annotation.t = "Str" -> annotation.text
      [] annotation.t = "Attribute" ->
            get_type_name(annotation.value) \o <<".", annotation.attr>>
      [] OTHER -> annotation.text

----------------------------------------------------------------------------
(* Analyzer: the second pass and the complexity score *)

\* the dataclasses ClassInfo names: keys of self.dataclasses
Known(dcs) == DictKeys(dcs)

\* _extract_type_references with the inner.strip() left out
RECURSIVE ExtractWithoutStrip(_, _, _)
ExtractWithoutStrip(type_name, owner_class, dcs) ==
    LET base_type == Split(type_name, "[")[1]
        fromBase ==
            IF \E k \in Known(dcs) : base_type = Str(k) /\ k # owner_class
            THEN {base_type[1]} ELSE {}
        inner_type ==
            Slice(type_name, Index(type_name, "[") + 1, RIndex(type_name, "]"))
        parts == Split(inner_type, ",")
        fromPart(inner) ==
            IF \E k \in Known(dcs) : inner = Str(k) /\ k # owner_class
            THEN {inner[1]}
            ELSE IF Contains(inner, "[")
            THEN ExtractWithoutStrip(inner, owner_class, dcs)
            ELSE {}
    IN  fromBase \cup
        (IF Contains(type_name, "[") /\ Contains(type_name, "]")
         THEN UNION {fromPart(parts[i]) : i \in DOMAIN parts}
         ELSE {})

\* _extract_type_references with the owner test of the inner parts left out
RECURSIVE ExtractWithOwner(_, _, _)
ExtractWithOwner(type_name, owner_class, dcs) ==
    LET base_type == Split(type_name, "[")[1]
        fromBase ==
            IF \E k \in Known(dcs) : base_type = Str(k) /\ k # owner_class
            THEN {base_type[1]} ELSE {}
        inner_type ==
            Slice(type_name, Index(type_name, "[") + 1, RIndex(type_name, "]"))
        parts == Split(inner_type, ",")
        fromPart(p) ==
            LET inner == Strip(p)
            IN  IF \E k \in Known(dcs) : inner = Str(k)
                THEN {inner[1]}
                ELSE IF Contains(inner, "[")
                THEN ExtractWithOwner(inner, owner_class, dcs)
                ELSE {}
    IN  fromBase \cup
        (IF Contains(type_name, "[") /\ Contains(type_name, "]")
         THEN UNION {fromPart(parts[i]) : i \in DOMAIN parts}
         ELSE {})

\* _extract_type_references: the names it adds to the dependencies set
RECURSIVE _extract_type_references(_, _, _)
_extract_type_references(type_name, owner_class, dcs) ==
    LET base_type == Split(type_name, "[")[1]
        fromBase ==
            IF \E k \in Known(dcs) : base_type = Str(k) /\ k # owner_class
            THEN {base_type[1]} ELSE {}
        inner_type ==
            Slice(type_name, Index(type_name, "[") + 1, RIndex(type_name, "]"))
        parts == Split(inner_type, ",")
        fromPart(p) ==
            LET inner == Strip(p)
            IN  IF \E k \in Known(dcs) : inner = Str(k) /\ k # owner_class
                THEN {inner[1]}
                ELSE IF Contains(inner, "[")
                THEN _extract_type_references(inner, owner_class, dcs)
                ELSE {}
    IN  fromBase \cup
        (IF Contains(type_name, "[") /\ Contains(type_name, "]")
         THEN UNION {fromPart(parts[i]) : i \in DOMAIN parts}
         ELSE {})

\* the recomputed set joined with the sets the dependencies had before
ResolvedThroughDependencies(class_name, class_info, dcs) ==
    LET direct == UNION {_extract_type_references(get_type_name(class_info.fields[i][2]),
                                                  class_name, dcs) :
                         i \in DOMAIN class_info.fields}
    IN  direct \cup UNION {DictGet(dcs, d).dependencies : d \in direct}

\* the dependencies set of one ClassInfo after the loop over its fields
ResolvedDependencies(class_name, class_info, dcs) ==
    UNION {_extract_type_references(get_type_name(class_info.fields[i][2]),
                                    class_name, dcs) :
           i \in DOMAIN class_info.fields}

\* a resolver that clears every set and recomputes only the sets that were
\* empty before
ResolveOnlyUnresolved(dcs) ==
    [i \in DOMAIN dcs |->
        <<dcs[i][1],
          [dcs[i][2] EXCEPT !.dependencies =
              IF @ = {} THEN ResolvedDependencies(dcs[i][1], dcs[i][2], dcs) ELSE {}]>>]

\* _resolve_class_dependencies: self.dataclasses after the pass
_resolve_class_dependencies(dcs) ==
    [i \in DOMAIN dcs |->
        <<dcs[i][1],
          [dcs[i][2] EXCEPT !.dependencies =
              ResolvedDependencies(dcs[i][1], dcs[i][2], dcs)]>>]

\* _calculate_field_complexity with the .lower() left out
ComplexityCaseSensitive(type_name, dcs) ==
    LET base_type == Split(type_name, "[")[1]
    IN  IF base_type \in {Str("int"), Str("str"), Str("bool"), Str("float")} THEN 1
        ELSE IF base_type = Str("list") THEN 10
        ELSE IF \E k \in Known(dcs) : Split(type_name, "[")[1] = Str(k) THEN 10
        ELSE IF base_type \in {Str("dict"), Str("tuple"), Str("set")} THEN 100
        ELSE 1000

\* _calculate_field_complexity, in tenths (0.1 is 1, 1 is 10, 10 is 100)
_calculate_field_complexity(type_name, dcs) ==
    LET base_type == Lower(Split(type_name, "[")[1])
    IN  IF base_type \in {Str("int"), Str("str"), Str("bool"), Str("float")} THEN 1
        ELSE IF base_type = Str("list") THEN 10
        ELSE IF \E k \in Known(dcs) : Split(type_name, "[")[1] = Str(k) THEN 10
        ELSE IF base_type \in {Str("dict"), Str("tuple"), Str("set")} THEN 100
        ELSE 1000

\* A Python float of the scorer: the double whose exact value is
\* tenths / 10 + err / (5 * 2^56), tenths being the sum of the scores added
\* so far (in tenths) and err what the roundings of the additions have left.
\* Every double from 0.0625 up to 2^20 that the scorer can reach is a whole
\* number of 2^-56, that is of 5 units of err.
Float(tenths, err) == [tenths |-> tenths, err |-> err]

\* total_score = 0.0
ZeroFloat == Float(0, 0)

\* the float of a score: the literal 0.1 is the double 0.1 + 2 / (5 * 2^56),
\* the scores 1, 10 and 100 are ints and convert exactly
FloatOfScore(score) == Float(score, IF score = 1 THEN 2 ELSE 0)

\* 2^k mod 5 (2^4 = 16 leaves 1)
PowerOfTwoMod5(k) == (2 ^ (k % 4)) % 5

\* (tenths * 2^55 + err) mod (5 * 2^d), the exact value in units of err
ModGrid(tenths, err, d) ==
    (2 ^ d * (((tenths % 5) * PowerOfTwoMod5(55 - d)) % 5) + err) % (5 * 2 ^ d)

\* the exact value tenths / 10 + err / (5 * 2^56) is at least 2^e
AtLeastPowerOfTwo(tenths, err, e) ==
    LET scaled == IF e >= 0 THEN tenths ELSE tenths * 2 ^ (0 - e)
        bound == IF e >= 0 THEN 10 * 2 ^ e ELSE 10
    IN  scaled > bound \/ (scaled = bound /\ err >= 0)

\* the binary exponent of a positive exact value
Exponent(tenths, err) ==
    CHOOSE e \in (0 - 4)..20 :
        /\ AtLeastPowerOfTwo(tenths, err, e)
        /\ ~AtLeastPowerOfTwo(tenths, err, e + 1)

\* a + b on floats: the exact sum rounded to the 53 significant bits of a
\* double, ties to the even mantissa
FloatAdd(a, b) ==
    LET tenths == a.tenths + b.tenths
        err == a.err + b.err
    IN  IF tenths = 0 THEN ZeroFloat
        ELSE LET d == Exponent(tenths, err) + 4
                 grid == 5 * 2 ^ d
                 low == ModGrid(tenths, err, d)
                 odd == ModGrid(tenths, err, d + 1) >= grid
                 down == Float(tenths, err - low)
                 up == Float(tenths, err - low + grid)
             IN  IF d <= 0 \/ low = 0 THEN Float(tenths, err)
                 ELSE IF 2 * low < grid THEN down
                 ELSE IF 2 * low > grid THEN up
                 ELSE IF odd THEN up
                 ELSE down

\* f"{x:.1f}" as a number of tenths: err stays far below half a tenth
\* (2^54 units)
Format1f(x) == x.tenths

\* the running total of _calculate_dataclass_complexity over fields[1..n]
RECURSIVE ComplexitySum(_, _, _)
ComplexitySum(fields, n, dcs) ==
    IF n = 0 THEN ZeroFloat
    ELSE FloatAdd(ComplexitySum(fields, n - 1, dcs),
                  FloatOfScore(_calculate_field_complexity(get_type_name(fields[n][2]),
                                                           dcs)))

\* _calculate_dataclass_complexity: a float
_calculate_dataclass_complexity(class_name, dcs) ==
    LET class_info == DictGet(dcs, class_name)
    IN  ComplexitySum(class_info.fields, Len(class_info.fields), dcs)

----------------------------------------------------------------------------
(* Module constants and small helpers *)

COMPONENTS ==
    {"Argument", "Box", "BulletedList", "Button", "CheckBox", "Div", "Division",
     "Download", "FileUpload", "Header", "HorizontalRule", "Image", "LineBreak",
     "Link", "MatPlotLibPlot", "NumberedList", "PageContent", "Pre",
     "PreformattedText", "Row", "SelectBox", "Span", "SubmitButton", "Table",
     "Text", "TextArea", "TextBox"}

LINKING_COMPONENT_NAMES == {"Link", "Button", "SubmitButton"}

\* Python's None where a str is expected; no identifier or literal of the model
NoneValue == "<None>"

\* bool(x) of a str or None
Truthy(x) == x # NoneValue /\ x # ""

\* d[k] += 1 on a defaultdict(int)
Increment(d, k) ==
    IF k \in DOMAIN d THEN [d EXCEPT ![k] = @ + 1]
    ELSE [j \in DOMAIN d \cup {k} |-> IF j = k THEN 1 ELSE d[j]]

\* d[k].add(x) on a defaultdict(set)
AddTo(d, k, x) ==
    IF k \in DOMAIN d THEN [d EXCEPT ![k] = @ \cup {x}]
    ELSE [j \in DOMAIN d \cup {k} |-> IF j = k THEN {x} ELSE d[j]]

\* the empty defaultdict
EmptyDict == [k \in {} |-> 0]

RECURSIVE Flatten(_)
Flatten(seqs) == IF seqs = <<>> THEN <<>> ELSE Head(seqs) \o Flatten(Tail(seqs))

\* NodeVisitor.generic_visit below an expression: the nearest nodes that have
\* a visit_ method of their own, in visiting order
RECURSIVE Visitable(_)
Visitable(e) ==
    CASE e.t \in {"Call", "Attribute"} -> <<e>>
      [] e.t = "Subscript" -> Visitable(e.value) \o Visitable(e.slice)
      [] e.t = "Tuple" -> Flatten([i \in DOMAIN e.elts |-> Visitable(e.elts[i])])
      [] OTHER -> <<>>

VisitableAll(es) == Flatten([i \in DOMAIN es |-> Visitable(es[i])])

----------------------------------------------------------------------------
(* Statements of the source text *)

AnnAssign(target, annotation) ==
    [t |-> "AnnAssign", target |-> target, annotation |-> annotation]

ClassDef(name, decorator_list, bases, body) ==
    [t |-> "ClassDef", name |-> name, decorator_list |-> decorator_list,
     bases |-> bases, body |-> body]

\* args: the parameter names
FunctionDef(name, decorator_list, args) ==
    [t |-> "FunctionDef", name |-> name, decorator_list |-> decorator_list,
     args |-> args]

\* the value of a bare return
NoExpr == [t |-> "NoExpr"]

\* value: an expression, or NoExpr
Return(value) == [t |-> "Return", value |-> value]

\* an expression statement 1 + 1 + ... + 1 whose BinOp nodes nest depth deep;
\* none of its nodes has a visit_ method
BinOp(depth) == [t |-> "BinOp", depth |-> depth]

\* the end of the body of the innermost open FunctionDef
EndOfBody == [t |-> "EndOfBody"]

\* the end of the module
EndOfModule == [t |-> "EndOfModule"]

Module == [t |-> "Module"]

----------------------------------------------------------------------------
(* Analyzer: the visitor *)

ClassInfo(name, fields, base_classes) ==
    [name |-> name, fields |-> fields, base_classes |-> base_classes,
     dependencies |-> {}]

RouteInfo(name, signature, components, fields_used, calls) ==
    [name |-> name, signature |-> signature, components |-> components,
     fields_used |-> fields_used, function_calls |-> calls]

\* get_dataclass_fields over body[1..n]
RECURSIVE FieldsUpTo(_, _)
FieldsUpTo(body, n) ==
    IF n = 0 THEN <<>>
    ELSE LET statement == body[n]
             fields == FieldsUpTo(body, n - 1)
         IN  IF statement.t = "AnnAssign" /\ statement.target.t = "Name"
             THEN DictPut(fields, statement.target.id, statement.annotation)
             ELSE fields

get_dataclass_fields(n) == FieldsUpTo(n.body, Len(n.body))

\* the is_dataclass flag of visit_ClassDef after its loop
IsDataclass(n) ==
    \E i \in DOMAIN n.decorator_list :
        n.decorator_list[i].t = "Name" /\ n.decorator_list[i].id = "dataclass"

\* is_route with only the bare name decorator recognised
IsRouteBareOnly(n) ==
    \E i \in DOMAIN n.decorator_list :
        n.decorator_list[i].t = "Name" /\ n.decorator_list[i].id = "route"

\* the is_route flag of visit_FunctionDef after its loop
IsRoute(n) ==
    \E i \in DOMAIN n.decorator_list :
        LET decorator == n.decorator_list[i]
        IN  \/ decorator.t = "Name" /\ decorator.id = "route"
            \/ /\ decorator.t = "Call"
               /\ decorator.func.t = "Name"
               /\ decorator.func.id = "route"

get_function_name(n) ==
    IF n.func.t = "Name" THEN n.func.id
    ELSE IF n.func.t = "Attribute" THEN n.func.attr
    ELSE NoneValue

get_function_signature(n) ==
    <<n.name, "(">> \o JoinCommaSpace([i \in DOMAIN n.args |-> Str(n.args[i])]) \o <<")">>

\* base_classes of visit_ClassDef
BaseNames(n) ==
    LET IsName(b) == b.t = "Name"
        named == SelectSeq(n.bases, IsName)
    IN  [i \in DOMAIN named |-> named[i].id]

\* the children generic_visit visits below a ClassDef: bases, body, decorators
ClassChildren(n) ==
    VisitableAll(n.bases)
    \o Flatten([i \in DOMAIN n.body |->
            IF n.body[i].t = "AnnAssign"
            THEN Visitable(n.body[i].target) \o Visitable(n.body[i].annotation)
            ELSE <<>>])
    \o VisitableAll(n.decorator_list)

\* target_name of visit_Call with the string literal branch left out
LinkTargetNamesOnly(n) ==
    IF Len(n.args) >= 2
    THEN LET target == n.args[2]
         IN  IF target.t = "Name" THEN target.id ELSE NoneValue
    ELSE NoneValue

\* the link target of a linking component call: target_name of visit_Call
LinkTarget(n) ==
    IF Len(n.args) >= 2
    THEN LET target == n.args[2]
         IN  IF target.t = "Name" THEN target.id
             ELSE IF target.t = "Constant" /\ target.isstr THEN target.value
             ELSE NoneValue
    ELSE NoneValue

\* self.attribute_usage after the loop of visit_Attribute over self.dataclasses
CountAttribute(usage, dcs, attr) ==
    LET hit == {k \in Known(dcs) : attr \in DictKeys(DictGet(dcs, k).fields)}
    IN  [k \in DOMAIN usage \cup hit |->
            IF k \in hit
            THEN Increment(IF k \in DOMAIN usage THEN usage[k] ELSE EmptyDict, attr)
            ELSE usage[k]]

\* the conditions of visit_Attribute without the branch for nested accesses
TrackedNamesOnly(n) ==
    /\ n.value.t = "Name"
    /\ n.ctx \in {"Load", "Store"}

\* whether visit_Attribute records the access
Tracked(n) ==
    /\ n.value.t \in {"Name", "Attribute"}
    /\ n.ctx \in {"Load", "Store"}

----------------------------------------------------------------------------
(* Bounds on the source text *)

\* function declarations in the source text
MaxFunctionDefs == 2
\* depth of nested function declarations
MaxDepth == 2
\* expression statements and returns in the source text
MaxStmts == 2
\* statements in a source text that is analysed twice
MaxText == 3

Fits(n) ==
    /\ (run = 1 /\ n.t \in {"ClassDef", "FunctionDef", "Call", "Attribute", "Return"})
          => size.classes + size.defs + size.stmts < MaxText
    /\ CASE n.t = "ClassDef" ->
               /\ size.classes < MaxClassDefs
               /\ size.fields + Len(n.body) <= MaxFieldDecls
         [] n.t = "FunctionDef" ->
               /\ size.defs < MaxFunctionDefs
               /\ Len(stack) < MaxDepth
         [] n.t \in {"Call", "Attribute", "Return", "BinOp"} -> size.stmts < MaxStmts
         [] OTHER -> TRUE

Grown(n) ==
    [read    |-> size.read + 1,
     classes |-> size.classes + (IF n.t = "ClassDef" THEN 1 ELSE 0),
     fields  |-> size.fields + (IF n.t = "ClassDef" THEN Len(n.body) ELSE 0),
     defs    |-> size.defs + (IF n.t = "FunctionDef" THEN 1 ELSE 0),
     stmts   |-> size.stmts + (IF n.t \in {"Call", "Attribute", "Return", "BinOp"}
                               THEN 1 ELSE 0)]

\* the nodes the visitor may meet next: the next child of the node being
\* visited, else the next statement of the text (of S, or of the text read
\* before when this is the second run)
Reading(S) ==
    IF pending # <<>> THEN {Head(pending)}
    ELSE IF run = 2
    THEN (IF size.read < Len(code) THEN {code[size.read + 1]} ELSE {})
    ELSE {n \in S : Fits(n)}

\* the same for a source text whose statements S are not bounded by Fits
Upcoming(S) == IF pending # <<>> THEN {Head(pending)} ELSE S

\* n has been visited and its children are to be visited next
Advance(n, children) ==
    /\ node' = n
    /\ pending' = children \o (IF pending # <<>> THEN Tail(pending) ELSE <<>>)
    /\ size' = IF pending # <<>> THEN size ELSE Grown(n)
    /\ code' = IF pending = <<>> /\ run = 1 THEN Append(code, n) ELSE code

----------------------------------------------------------------------------
(* Actions: one per visit_ method, and the end of analyze *)

visit_ClassDef(n) ==
    /\ pc = "visit"
    /\ n.t = "ClassDef"
    /\ dataclasses' =
          IF IsDataclass(n)
          THEN DictPut(dataclasses, n.name,
                       ClassInfo(n.name, get_dataclass_fields(n), BaseNames(n)))
          ELSE dataclasses
    /\ Advance(n, ClassChildren(n))
    /\ UNCHANGED <<routes, current_route, function_calls, components_used,
                   attribute_usage, pc, stack, report, run, first>>

visit_FunctionDef(n) ==
    /\ pc = "visit"
    /\ n.t = "FunctionDef"
    /\ IF IsRoute(n)
       THEN /\ routes' = Append(routes,
                    RouteInfo(n.name, get_function_signature(n), EmptyDict, {}, {}))
            /\ current_route' = Len(routes) + 1
            /\ stack' = Append(stack, [route |-> TRUE, index |-> Len(routes) + 1,
                                        decorator_list |-> n.decorator_list])
       ELSE /\ stack' = Append(stack, [route |-> FALSE, index |-> 0,
                                        decorator_list |-> n.decorator_list])
            /\ UNCHANGED <<routes, current_route>>
    /\ Advance(n, <<>>)
    /\ UNCHANGED <<dataclasses, function_calls, components_used, attribute_usage,
                   pc, report, run, first>>

\* the end of a function body without self.current_route = None
LeaveKeepingRoute(n) ==
    /\ pc = "visit"
    /\ n.t = "EndOfBody"
    /\ stack # <<>>
    /\ LET top == stack[Len(stack)]
       IN  /\ stack' = SubSeq(stack, 1, Len(stack) - 1)
           /\ current_route' = current_route
           /\ Advance(n, IF top.route THEN <<>> ELSE VisitableAll(top.decorator_list))
    /\ UNCHANGED <<dataclasses, routes, function_calls, components_used,
                   attribute_usage, pc, report, run, first>>

\* the body of the innermost FunctionDef has been visited: a route clears
\* current_route, any other function goes on to its decorator_list
LeaveFunctionDef(n) ==
    /\ pc = "visit"
    /\ n.t = "EndOfBody"
    /\ stack # <<>>
    /\ LET top == stack[Len(stack)]
       IN  /\ stack' = SubSeq(stack, 1, Len(stack) - 1)
           /\ current_route' = IF top.route THEN 0 ELSE current_route
           /\ Advance(n, IF top.route THEN <<>> ELSE VisitableAll(top.decorator_list))
    /\ UNCHANGED <<dataclasses, routes, function_calls, components_used,
                   attribute_usage, pc, report, run, first>>

\* current_route.function_calls.add(name); function_calls[route name].add(name)
\* a variant of AddCalledName in which the edge map keeps, under the name
\* of the current route, only the names called by its latest declaration
AddCalledNameOfLatest(name) ==
    /\ routes' = [routes EXCEPT ![current_route].function_calls = @ \cup {name}]
    /\ function_calls' =
          [j \in DOMAIN function_calls \cup {routes[current_route].name} |->
              IF j = routes[current_route].name
              THEN routes[current_route].function_calls \cup {name}
              ELSE function_calls[j]]

AddCalledName(name) ==
    /\ routes' = [routes EXCEPT ![current_route].function_calls = @ \cup {name}]
    /\ function_calls' = AddTo(function_calls, routes[current_route].name, name)

visit_Call(n) ==
    /\ pc = "visit"
    /\ n.t = "Call"
    /\ LET func_name == get_function_name(n)
           target_name == LinkTarget(n)
       IN  IF func_name \in COMPONENTS
           THEN /\ components_used' = Increment(components_used, func_name)
                /\ IF current_route # 0
                   THEN IF func_name \in LINKING_COMPONENT_NAMES /\ Truthy(target_name)
                        THEN /\ routes' =
                                  [routes EXCEPT
                                     ![current_route].components = Increment(@, func_name),
                                     ![current_route].function_calls = @ \cup {target_name}]
                             /\ function_calls' =
                                  AddTo(function_calls, routes[current_route].name,
                                        target_name)
                        ELSE /\ routes' =
                                  [routes EXCEPT
                                     ![current_route].components = Increment(@, func_name)]
                             /\ UNCHANGED function_calls
                   ELSE UNCHANGED <<routes, function_calls>>
           ELSE /\ IF Truthy(func_name) /\ current_route # 0
                   THEN AddCalledName(func_name)
                   ELSE UNCHANGED <<routes, function_calls>>
                /\ UNCHANGED components_used
    /\ Advance(n, Visitable(n.func) \o VisitableAll(n.args))
    /\ UNCHANGED <<dataclasses, current_route, attribute_usage, pc, stack, report,
                   run, first>>

visit_Return(n) ==
    /\ pc = "visit"
    /\ n.t = "Return"
    /\ IF /\ n.value.t = "Call"
          /\ Truthy(get_function_name(n.value))
          /\ current_route # 0
       THEN AddCalledName(get_function_name(n.value))
       ELSE UNCHANGED <<routes, function_calls>>
    /\ Advance(n, Visitable(n.value))
    /\ UNCHANGED <<dataclasses, current_route, components_used, attribute_usage,
                   pc, stack, report, run, first>>

visit_Attribute(n) ==
    /\ pc = "visit"
    /\ n.t = "Attribute"
    /\ IF Tracked(n)
       THEN /\ routes' =
                 IF current_route # 0
                 THEN [routes EXCEPT ![current_route].fields_used = @ \cup {n.attr}]
                 ELSE routes
            /\ attribute_usage' = CountAttribute(attribute_usage, dataclasses, n.attr)
       ELSE UNCHANGED <<routes, attribute_usage>>
    /\ Advance(n, Visitable(n.value))
    /\ UNCHANGED <<dataclasses, current_route, function_calls, components_used,
                   pc, stack, report, run, first>>

\* the end of the traversal: analyze runs the second pass and returns
ResolveDependencies(n) ==
    /\ pc = "visit"
    /\ n.t = "EndOfModule"
    /\ stack = <<>>
    /\ dataclasses' = _resolve_class_dependencies(dataclasses)
    /\ pc' = "done"
    /\ Advance(n, <<>>)
    /\ UNCHANGED <<routes, current_route, function_calls, components_used,
                   attribute_usage, stack, report, run, first>>

----------------------------------------------------------------------------
(* generate_dataclass_analysis *)

\* usage[class_name][field_name] read through the defaultdicts
UsageCount(usage, class_name, field_name) ==
    IF class_name \in DOMAIN usage /\ field_name \in DOMAIN usage[class_name]
    THEN usage[class_name][field_name]
    ELSE 0

\* sum(d.values())
RECURSIVE SumValues(_)
SumValues(d) ==
    IF DOMAIN d = {} THEN 0
    ELSE LET k == CHOOSE j \in DOMAIN d : TRUE
         IN  d[k] + SumValues([j \in DOMAIN d \ {k} |-> d[j]])

\* any(class_name in info.dependencies for info in self.dataclasses.values())
IsDependency(class_name, dcs) ==
    \E i \in DOMAIN dcs : class_name \in dcs[i][2].dependencies

\* the class_used flag of generate_dataclass_analysis
class_used(class_name, dcs, usage) ==
    \/ IsDependency(class_name, dcs)
    \/ SumValues(IF class_name \in DOMAIN usage THEN usage[class_name]
                 ELSE EmptyDict) > 0

\* the unused_dataclasses list
unused_dataclasses(dcs, usage) ==
    LET names == [i \in DOMAIN dcs |-> dcs[i][1]]
        Unused(class_name) == ~class_used(class_name, dcs, usage)
    IN  SelectSeq(names, Unused)

\* the unused_attributes list restricted to the records reported as unused
UnusedAttributesOfUnused(dcs, usage) ==
    Flatten([i \in DOMAIN dcs |->
        LET class_name == dcs[i][1]
            fields == dcs[i][2].fields
            names == [j \in DOMAIN fields |-> <<class_name, ".", fields[j][1]>>]
            Unused(qualified) == UsageCount(usage, qualified[1], qualified[3]) = 0
        IN  IF class_used(class_name, dcs, usage) THEN <<>>
            ELSE SelectSeq(names, Unused)])

\* the unused_attributes list: one "Class.field" per field never counted
unused_attributes(dcs, usage) ==
    Flatten([i \in DOMAIN dcs |->
        LET class_name == dcs[i][1]
            fields == dcs[i][2].fields
            names == [j \in DOMAIN fields |-> <<class_name, ".", fields[j][1]>>]
            Unused(qualified) == UsageCount(usage, qualified[1], qualified[3]) = 0
        IN  SelectSeq(names, Unused)])

\* the rows of the attribute table
table_data(dcs, usage) ==
    Flatten([i \in DOMAIN dcs |->
        LET class_name == dcs[i][1]
            fields == dcs[i][2].fields
        IN  [j \in DOMAIN fields |->
                <<class_name, fields[j][1], get_type_name(fields[j][2]),
                  UsageCount(usage, class_name, fields[j][1]),
                  Format1f(FloatOfScore(
                      _calculate_field_complexity(get_type_name(fields[j][2]), dcs)))>>]])

\* the rows of the complexity table, in tenths as formatted
complexity_rows(dcs) ==
    [i \in DOMAIN dcs |->
        <<dcs[i][1], Format1f(_calculate_dataclass_complexity(dcs[i][1], dcs))>>]

\* total_complexity after the loop over dcs[1..n]
RECURSIVE total_complexity(_, _)
total_complexity(dcs, n) ==
    IF n = 0 THEN ZeroFloat
    ELSE FloatAdd(total_complexity(dcs, n - 1),
                  _calculate_dataclass_complexity(dcs[n][1], dcs))

RECURSIVE SumSeq(_)
SumSeq(xs) == IF xs = <<>> THEN 0 ELSE Head(xs) + SumSeq(Tail(xs))

\* self.attribute_usage after the reads of generate_dataclass_analysis: a read
\* of a defaultdict inserts the missing key
UsageAfterAnalysis(dcs, usage) ==
    LET read == {k \in Known(dcs) :
                    \/ ~IsDependency(k, dcs)
                    \/ DictGet(dcs, k).fields # <<>>}
    IN  [k \in DOMAIN usage \cup read |->
            LET old == IF k \in DOMAIN usage THEN usage[k] ELSE EmptyDict
                fieldNames == IF k \in read THEN DictKeys(DictGet(dcs, k).fields) ELSE {}
            IN  [f \in DOMAIN old \cup fieldNames |->
                    IF f \in DOMAIN old THEN old[f] ELSE 0]]

NoReport ==
    [made |-> FALSE, found |-> FALSE, table |-> <<>>, scores |-> <<>>, total |-> 0,
     unused_dataclasses |-> <<>>, unused_attributes |-> <<>>]

Analysis(dcs, usage) ==
    IF dcs = <<>> THEN [NoReport EXCEPT !.made = TRUE]
    ELSE [made |-> TRUE, found |-> TRUE,
          table |-> table_data(dcs, usage),
          scores |-> complexity_rows(dcs),
          total |-> Format1f(total_complexity(dcs, Len(dcs))),
          unused_dataclasses |-> unused_dataclasses(dcs, usage),
          unused_attributes |-> unused_attributes(dcs, usage)]

generate_dataclass_analysis ==
    /\ pc = "done"
    /\ report' = Analysis(dataclasses, attribute_usage)
    /\ attribute_usage' =
          IF dataclasses = <<>> THEN attribute_usage
          ELSE UsageAfterAnalysis(dataclasses, attribute_usage)
    /\ UNCHANGED <<dataclasses, routes, current_route, function_calls,
                   components_used, pc, stack, pending, node, size, run, code, first>>

----------------------------------------------------------------------------
(* Analyzer() and the specifications *)

NoModel ==
    [dataclasses |-> <<>>, routes |-> <<>>, function_calls |-> EmptyDict,
     components_used |-> EmptyDict, attribute_usage |-> EmptyDict]

\* Analyzer.__init__, before analyze is called
Constructed ==
    /\ dataclasses = <<>>
    /\ routes = <<>>
    /\ current_route = 0
    /\ function_calls = EmptyDict
    /\ components_used = EmptyDict
    /\ attribute_usage = EmptyDict
    /\ pc = "visit"
    /\ stack = <<>>
    /\ pending = <<>>
    /\ node = Module
    /\ size = [read |-> 0, classes |-> 0, fields |-> 0, defs |-> 0, stmts |-> 0]
    /\ report = NoReport

\* one Analyzer and one source text
Init ==
    /\ Constructed
    /\ run = 0
    /\ code = <<>>
    /\ first = NoModel

(* The type specification: source texts of dataclass declarations whose     *)
(* fields range over the annotation shapes get_type_name tells apart.       *)

ClassNames == {"A", "B"}

FieldNameAt == <<"x", "y", "z", "w">>

TypeAnnotations ==
    {Name("int"), Name("Float"), Name("A"), Name("B"), Name("Foo"),
     Constant("A", TRUE),
     Subscript(Name("list"), Name("A")),
     Subscript(Name("List"), Name("B")),
     Subscript(Name("dict"), Tuple(<<Name("str"), Name("A")>>)),
     Subscript(Name("dict"), Tuple(<<Name("str"), Subscript(Name("list"), Name("B"))>>)),
     Subscript(Name("dict"),
               Tuple(<<Name("str"),
                       Subscript(Name("dict"), Tuple(<<Name("str"), Name("A")>>))>>)),
     Subscript(Name("list"), Subscript(Name("list"), Name("A"))),
     Subscript(Name("tuple"), Tuple(<<Name("int"), Name("B")>>)),
     Subscript(Attribute(Name("typing"), "List", "Load"), Name("A"))}

\* class bodies of up to most annotated assignments over anns
Bodies(anns, most) ==
    UNION {{[i \in 1..k |-> AnnAssign(Name(FieldNameAt[i]), f[i])] : f \in [1..k -> anns]} :
           k \in 0..most}

\* the field declarations the bound still allows
FieldsLeft == IF size.fields < MaxFieldDecls THEN MaxFieldDecls - size.fields ELSE 0

TypeClassDefs ==
    {ClassDef(name, <<Name("dataclass")>>, <<>>, body) :
        name \in ClassNames, body \in Bodies(TypeAnnotations, FieldsLeft)}
    \cup {ClassDef("A", <<>>, <<>>, <<AnnAssign(Name("x"), Name("B"))>>)}

NextTypes ==
    \/ \E n \in Reading(TypeClassDefs) : visit_ClassDef(n)
    \/ \E n \in Reading({}) : visit_Attribute(n)
    \/ \E n \in Reading({EndOfModule}) : ResolveDependencies(n)
    \/ generate_dataclass_analysis

SpecTypes == Init /\ [][NextTypes]_vars

(* The score specification: the records of the complexity tests, and a     *)
(* record B whose fields range over the spellings the scorer tells apart.  *)

ScoreAnnotations ==
    {Name("Int"), Name("A"), Name("a"),
     Subscript(Name("List"), Name("A")),
     Subscript(Name("Dict"), Tuple(<<Name("str"), Name("int")>>)),
     Subscript(Attribute(Name("typing"), "List", "Load"), Name("A"))}

\* the records of test_complexity_calculation_primitives, _collections and
\* _custom_types
TestClassDefs ==
    {ClassDef("Simple", <<Name("dataclass")>>, <<>>,
              <<AnnAssign(Name("a"), Name("int")), AnnAssign(Name("b"), Name("str")),
                AnnAssign(Name("c"), Name("bool")), AnnAssign(Name("d"), Name("float"))>>),
     ClassDef("Collections", <<Name("dataclass")>>, <<>>,
              <<AnnAssign(Name("a_list"), Subscript(Name("list"), Name("int"))),
                AnnAssign(Name("a_dict"),
                          Subscript(Name("dict"), Tuple(<<Name("str"), Name("int")>>))),
                AnnAssign(Name("a_tuple"),
                          Subscript(Name("tuple"), Tuple(<<Name("int"), Name("str")>>))),
                AnnAssign(Name("a_set"), Subscript(Name("set"), Name("str")))>>),
     ClassDef("A", <<Name("dataclass")>>, <<>>, <<AnnAssign(Name("value"), Name("int"))>>),
     ClassDef("B", <<Name("dataclass")>>, <<>>,
              <<AnnAssign(Name("a"), Name("A")),
                AnnAssign(Name("items"), Subscript(Name("list"), Name("A")))>>)}

ScoreClassDefs ==
    TestClassDefs
    \cup {ClassDef("B", <<Name("dataclass")>>, <<>>, body) :
             body \in Bodies(ScoreAnnotations, MaxFieldDecls)}

\* the class declarations of S whose name the text has not declared yet
Undeclared(S) == {n \in S : n.name \notin Known(dataclasses)}

NextScore ==
    \/ \E n \in Upcoming(Undeclared(ScoreClassDefs)) : visit_ClassDef(n)
    \/ \E n \in Upcoming({}) : visit_Attribute(n)
    \/ \E n \in Upcoming({EndOfModule}) : ResolveDependencies(n)
    \/ generate_dataclass_analysis

SpecScore == Init /\ [][NextScore]_vars

(* The route specification: source texts of function declarations, calls   *)
(* and returns.                                                             *)

FunctionDefs ==
    {FunctionDef("index", <<Name("route")>>, <<"state">>),
     FunctionDef("index", <<Call(Name("route"), <<Constant("/", TRUE)>>)>>, <<"state">>),
     FunctionDef("about", <<Call(Name("cache"), <<>>), Name("route")>>, <<"state", "page">>),
     FunctionDef("helper", <<>>, <<>>),
     FunctionDef("helper",
                 <<Call(Attribute(Name("app"), "route", "Load"), <<Constant("/", TRUE)>>)>>,
                 <<"state">>)}

Calls ==
    {Call(Name("helper"), <<>>),
     Call(Attribute(Name("items"), "append", "Load"), <<Name("state")>>),
     Call(Call(Name("helper"), <<>>), <<>>),
     Call(Name("Text"), <<Constant("a", TRUE), Name("about")>>),
     Call(Name("Button"), <<Constant("a", TRUE), Name("about")>>),
     Call(Name("Button"), <<Constant("a", TRUE), Constant("about", TRUE)>>),
     Call(Name("Button"), <<Constant("a", TRUE), Constant("", TRUE)>>),
     Call(Name("Button"), <<Constant("a", TRUE)>>),
     Call(Name("Link"), <<Constant("a", TRUE), Constant("index", TRUE)>>),
     Call(Name("SubmitButton"), <<Constant("a", TRUE), Call(Name("helper"), <<>>)>>)}

Returns ==
    {Return(NoExpr),
     Return(Call(Name("about"), <<Name("state")>>)),
     Return(Call(Attribute(Name("items"), "append", "Load"), <<>>)),
     Return(Call(Name("Button"), <<Constant("a", TRUE), Name("index")>>))}

Next ==
    \/ \E n \in Reading(FunctionDefs) : visit_FunctionDef(n)
    \/ \E n \in Reading({EndOfBody}) : LeaveFunctionDef(n)
    \/ \E n \in Reading(Calls) : visit_Call(n)
    \/ \E n \in Reading(Returns) : visit_Return(n)
    \/ \E n \in Reading({}) : visit_Attribute(n)
    \/ \E n \in Reading({EndOfModule}) : ResolveDependencies(n)

Spec == Init /\ [][Next]_vars

(* The usage specification: dataclass declarations, function declarations *)
(* and attribute references, followed by the dataclass analysis.           *)

UsageClassDefs ==
    {ClassDef("A", <<Name("dataclass")>>, <<>>, <<AnnAssign(Name("x"), Name("int"))>>),
     ClassDef("A", <<Name("dataclass")>>, <<>>,
              <<AnnAssign(Name("x"), Name("B")), AnnAssign(Name("y"), Name("int"))>>),
     ClassDef("B", <<Name("dataclass")>>, <<>>, <<AnnAssign(Name("x"), Name("int"))>>),
     ClassDef("B", <<Name("dataclass")>>, <<>>,
              <<AnnAssign(Name("y"), Subscript(Name("list"), Name("A")))>>)}

UsageFunctionDefs ==
    {FunctionDef("index", <<Name("route")>>, <<"state">>),
     FunctionDef("helper", <<>>, <<"state">>)}

Attributes ==
    {Attribute(Name("state"), "x", "Load"),
     Attribute(Name("state"), "y", "Store"),
     Attribute(Name("state"), "x", "Del"),
     Attribute(Attribute(Name("state"), "x", "Load"), "y", "Load"),
     Attribute(Subscript(Name("items"), Constant("0", FALSE)), "x", "Load")}

NextUsage ==
    \/ \E n \in Reading(UsageClassDefs) : visit_ClassDef(n)
    \/ \E n \in Reading(UsageFunctionDefs) : visit_FunctionDef(n)
    \/ \E n \in Reading({EndOfBody}) : LeaveFunctionDef(n)
    \/ \E n \in Reading(Attributes) : visit_Attribute(n)
    \/ \E n \in Reading({EndOfModule}) : ResolveDependencies(n)
    \/ generate_dataclass_analysis

SpecUsage == Init /\ [][NextUsage]_vars

(* The resolver specification: after analyze has returned, the resolver   *)
(* is run again, with or without a record added to the model before.        *)

\* the model as it is now
Snapshot ==
    [dataclasses |-> dataclasses, routes |-> routes,
     function_calls |-> function_calls,
     components_used |-> components_used,
     attribute_usage |-> attribute_usage]

\* self.dataclasses[n.name] = ClassInfo(...) for a name that is not yet a
\* record; first keeps the model as it was before
AddRecord(n) ==
    /\ pc = "done"
    /\ n.t = "ClassDef"
    /\ IsDataclass(n)
    /\ n.name \notin Known(dataclasses)
    /\ dataclasses' = DictPut(dataclasses, n.name,
                              ClassInfo(n.name, get_dataclass_fields(n), BaseNames(n)))
    /\ first' = Snapshot
    /\ pc' = "added"
    /\ run' = 3
    /\ node' = n
    /\ size' = Grown(n)
    /\ UNCHANGED <<routes, current_route, function_calls, components_used,
                   attribute_usage, stack, pending, report, code>>

\* self._resolve_class_dependencies() once more; when no record was added,
\* first keeps the model as it was before this run
ResolveAgain ==
    /\ pc \in {"done", "added"}
    /\ dataclasses' = _resolve_class_dependencies(dataclasses)
    /\ first' = IF pc = "added" THEN first ELSE Snapshot
    /\ pc' = "done"
    /\ run' = 3
    /\ UNCHANGED <<routes, current_route, function_calls, components_used,
                   attribute_usage, stack, pending, node, size, report, code>>

\* declarations of the class Foo that field annotations of the text name
AddedClassDefs ==
    {ClassDef("Foo", <<Name("dataclass")>>, <<>>, body) :
        body \in {<<AnnAssign(Name("x"), Subscript(Name("list"), Name("A")))>>}}

NextResolve ==
    \/ \E n \in Reading(TypeClassDefs) : visit_ClassDef(n)
    \/ \E n \in Reading({}) : visit_Attribute(n)
    \/ \E n \in Reading({EndOfModule}) : ResolveDependencies(n)
    \/ \E n \in AddedClassDefs : AddRecord(n)
    \/ ResolveAgain

SpecResolve == Init /\ [][NextResolve]_vars

(* The failure specification: analyze on texts that do not parse and on   *)
(* texts whose expressions nest deeply.                                     *)

\* sys.getrecursionlimit() of the interpreter that runs analyze
RecursionLimit == 1000

\* the interpreter frames of the caller of analyze: analyze is called from
\* the top level of a script
CallerFrames == 1

\* the frames that are open whatever the text when the innermost node of a
\* statement is visited: analyze, visit and generic_visit of the Module,
\* visit and generic_visit of the statement, and at the leaf visit,
\* visit_Constant, generic_visit and iter_fields
FixedFrames == 9

\* the interpreter frames in use, from analyze down, when the innermost node
\* of n is visited: the fixed ones, visit and generic_visit for each level
\* of n, visit and visit_FunctionDef for each open route, and generic_visit
\* besides for each other open function
Frames(n) ==
    LET Open(i) == IF stack[i].route THEN 2 ELSE 3
    IN  FixedFrames + 2 * n.depth + SumSeq([i \in DOMAIN stack |-> Open(i)])

\* the levels ast.parse has in use at the innermost node of n: three for
\* each interpreter frame down to ast.parse, one for each level of n and for
\* each open function, and five for the module, the statement and the leaf;
\* the text parses while they stay below three times the recursion limit
ParserLevels(n) == 3 * (CallerFrames + 2) + n.depth + Len(stack) + 5

\* ast.parse(code) raises SyntaxError: analyze ends before self.visit(tree)
SyntaxError ==
    /\ pc = "visit"
    /\ node = Module
    /\ pc' = "SyntaxError"
    /\ UNCHANGED <<dataclasses, routes, current_route, function_calls,
                   components_used, attribute_usage, stack, pending, node, size,
                   report, run, code, first>>

\* NodeVisitor.generic_visit below a statement with no visit_ method: it
\* recurses once per level, and the interpreter raises RecursionError out of
\* analyze when the frames run out
generic_visit(n) ==
    /\ pc = "visit"
    /\ n.t = "BinOp"
    /\ ParserLevels(n) < 3 * RecursionLimit
    /\ pc' = IF CallerFrames + Frames(n) > RecursionLimit THEN "RecursionError" ELSE pc
    /\ Advance(n, <<>>)
    /\ UNCHANGED <<dataclasses, routes, current_route, function_calls,
                   components_used, attribute_usage, stack, report, run, first>>

ParseStatements ==
    {ClassDef("A", <<Name("dataclass")>>, <<>>, <<AnnAssign(Name("x"), Name("B"))>>),
     ClassDef("B", <<Name("dataclass")>>, <<>>, <<AnnAssign(Name("y"), Name("int"))>>),
     FunctionDef("index", <<Name("route")>>, <<"state">>),
     FunctionDef("helper", <<>>, <<>>),
     Call(Name("helper"), <<>>),
     Call(Name("Button"), <<Constant("a", TRUE), Name("index")>>),
     Attribute(Name("state"), "x", "Load"),
     BinOp(300),
     BinOp(495),
     BinOp(600)}

NextParse ==
    \/ SyntaxError
    \/ \E n \in Reading(ParseStatements) : visit_ClassDef(n)
    \/ \E n \in Reading(ParseStatements) : visit_FunctionDef(n)
    \/ \E n \in Reading({EndOfBody}) : LeaveFunctionDef(n)
    \/ \E n \in Reading(ParseStatements) : visit_Call(n)
    \/ \E n \in Reading(ParseStatements) : visit_Attribute(n)
    \/ \E n \in Reading(ParseStatements) : generic_visit(n)
    \/ \E n \in Reading({EndOfModule}) : ResolveDependencies(n)

SpecParse == Init /\ [][NextParse]_vars

(* The nesting specification: the second pass one call of                  *)
(* _extract_type_references at a time, on records whose quoted annotations *)
(* nest generic types.                                                     *)

\* the text of "list[" * depth + id + "]" * depth
NestedText(depth, id) ==
    [i \in 1..(3 * depth + 1) |->
        IF i <= 2 * depth THEN (IF i % 2 = 1 THEN "list" ELSE "[")
        ELSE IF i = 2 * depth + 1 THEN id
        ELSE "]"]

\* type_name.split("[")[0]
BaseType(type_name) ==
    IF Contains(type_name, "[") THEN Slice(type_name, 0, Index(type_name, "["))
    ELSE type_name

\* the parts the loop of _extract_type_references goes through
InnerParts(type_name) ==
    IF Contains(type_name, "[") /\ Contains(type_name, "]")
    THEN Split(Slice(type_name, Index(type_name, "[") + 1, RIndex(type_name, "]")), ",")
    ELSE <<>>

\* name is a key of self.dataclasses other than owner_class
RefersTo(name, owner_class, dcs) ==
    \E k \in Known(dcs) : name = Str(k) /\ k # owner_class

\* class_info.dependencies.clear() of the ClassInfo named owner
ClearItem(owner) == [t |-> "clear", owner |-> owner]

\* self._extract_type_references(type_name, class_name, class_info.dependencies)
CallItem(owner, type_name) == [t |-> "extract", owner |-> owner, type_name |-> type_name]

\* the loops of _resolve_class_dependencies laid out: what it does, in order
ResolveWork(dcs) ==
    Flatten([i \in DOMAIN dcs |->
        <<ClearItem(dcs[i][1])>>
        \o [j \in DOMAIN dcs[i][2].fields |->
               CallItem(dcs[i][1], get_type_name(dcs[i][2].fields[j][2]))]])

\* dependencies.add(name) on the set of the ClassInfo named owner
AddDependency(dcs, owner, name) ==
    [dcs EXCEPT ![DictIndex(dcs, owner)][2].dependencies = @ \cup {name}]

\* the interpreter frames of analyze and _resolve_class_dependencies
ResolverFrames == 2

\* a call of _extract_type_references below the open calls frames: the
\* interpreter raises RecursionError out of analyze when the frames run out,
\* which they do for the call itself or for the call of type_name.split it
\* begins with; else the base type is tested and the parts of the inner type
\* are to go through
Enter(frames, type_name, owner_class) ==
    IF CallerFrames + ResolverFrames + Len(frames) + 2 > RecursionLimit
    THEN /\ pc' = "RecursionError"
         /\ stack' = <<>>
         /\ UNCHANGED dataclasses
    ELSE /\ pc' = pc
         /\ stack' = Append(frames, [owner |-> owner_class,
                                     parts |-> InnerParts(type_name)])
         /\ dataclasses' =
               IF RefersTo(BaseType(type_name), owner_class, dataclasses)
               THEN AddDependency(dataclasses, owner_class, BaseType(type_name)[1])
               ELSE dataclasses

\* the end of the traversal: analyze calls _resolve_class_dependencies
BeginResolve(n) ==
    /\ pc = "visit"
    /\ n.t = "EndOfModule"
    /\ stack = <<>>
    /\ pc' = "resolve"
    /\ node' = n
    /\ size' = Grown(n)
    /\ pending' = ResolveWork(dataclasses)
    /\ UNCHANGED <<dataclasses, routes, current_route, function_calls,
                   components_used, attribute_usage, stack, report, run, code,
                   first>>

ClearDependencies ==
    /\ pc = "resolve"
    /\ stack = <<>>
    /\ pending # <<>>
    /\ Head(pending).t = "clear"
    /\ dataclasses' =
          [dataclasses EXCEPT
              ![DictIndex(dataclasses, Head(pending).owner)][2].dependencies = {}]
    /\ pending' = Tail(pending)
    /\ UNCHANGED <<routes, current_route, function_calls, components_used,
                   attribute_usage, pc, stack, node, size, report, run, code,
                   first>>

\* the call of _extract_type_references for the next field
ExtractField ==
    /\ pc = "resolve"
    /\ stack = <<>>
    /\ pending # <<>>
    /\ Head(pending).t = "extract"
    /\ Enter(<<>>, Head(pending).type_name, Head(pending).owner)
    /\ pending' = Tail(pending)
    /\ UNCHANGED <<routes, current_route, function_calls, components_used,
                   attribute_usage, node, size, report, run, code, first>>

\* one turn of the loop over the parts in the innermost call
ExtractInner ==
    /\ pc = "resolve"
    /\ stack # <<>>
    /\ stack[Len(stack)].parts # <<>>
    /\ LET owner_class == stack[Len(stack)].owner
           inner == Strip(Head(stack[Len(stack)].parts))
           rest == [stack EXCEPT ![Len(stack)].parts = Tail(@)]
       IN  IF RefersTo(inner, owner_class, dataclasses)
           THEN /\ dataclasses' = AddDependency(dataclasses, owner_class, inner[1])
                /\ stack' = rest
                /\ pc' = pc
           ELSE IF Contains(inner, "[")
           THEN Enter(rest, inner, owner_class)
           ELSE /\ stack' = rest
                /\ UNCHANGED <<dataclasses, pc>>
    /\ UNCHANGED <<routes, current_route, function_calls, components_used,
                   attribute_usage, pending, node, size, report, run, code,
                   first>>

\* the innermost call has gone through its parts and returns
ExtractReturn ==
    /\ pc = "resolve"
    /\ stack # <<>>
    /\ stack[Len(stack)].parts = <<>>
    /\ stack' = SubSeq(stack, 1, Len(stack) - 1)
    /\ UNCHANGED <<dataclasses, routes, current_route, function_calls,
                   components_used, attribute_usage, pc, pending, node, size,
                   report, run, code, first>>

\* _resolve_class_dependencies and analyze return
EndResolve ==
    /\ pc = "resolve"
    /\ stack = <<>>
    /\ pending = <<>>
    /\ pc' = "done"
    /\ UNCHANGED <<dataclasses, routes, current_route, function_calls,
                   components_used, attribute_usage, stack, pending, node, size,
                   report, run, code, first>>

\* the nesting levels of the quoted annotations
NestDepths == {2, 1000}

NestedClassDefs ==
    {ClassDef("A", <<Name("dataclass")>>, <<>>, <<>>),
     ClassDef("A", <<Name("dataclass")>>, <<>>, <<AnnAssign(Name("x"), Name("B"))>>),
     ClassDef("A", <<Name("dataclass")>>, <<>>,
              <<AnnAssign(Name("x"), Subscript(Name("list"), Name("A")))>>),
     ClassDef("B", <<Name("dataclass")>>, <<>>, <<AnnAssign(Name("y"), Name("A"))>>),
     ClassDef("B", <<Name("dataclass")>>, <<>>,
              <<AnnAssign(Name("y"),
                          Subscript(Name("dict"),
                                    Tuple(<<Name("str"),
                                            Subscript(Name("list"), Name("A"))>>)))>>)}
    \cup {ClassDef("B", <<Name("dataclass")>>, <<>>,
                   <<AnnAssign(Name("y"), StrConstant(NestedText(d, "A"))),
                     AnnAssign(Name("z"), Name("A"))>>) : d \in NestDepths}

NextNested ==
    \/ \E n \in Reading(NestedClassDefs) : visit_ClassDef(n)
    \/ \E n \in Reading({EndOfModule}) : BeginResolve(n)
    \/ ClearDependencies
    \/ ExtractField
    \/ ExtractInner
    \/ ExtractReturn
    \/ EndResolve

SpecNested == Init /\ [][NextNested]_vars

(* The repeated specification: a source text is analysed by one Analyzer,  *)
(* then the same text, kept in code, by a second one or by the same one.    *)

TwiceStatements ==
    {ClassDef("A", <<Name("dataclass")>>, <<>>, <<AnnAssign(Name("x"), Name("B"))>>),
     ClassDef("B", <<Name("dataclass")>>, <<>>, <<AnnAssign(Name("y"), Name("int"))>>),
     FunctionDef("index", <<Name("route")>>, <<"state">>),
     FunctionDef("helper", <<>>, <<>>),
     Call(Name("helper"), <<>>),
     Call(Name("Button"), <<Constant("a", TRUE), Constant("about", TRUE)>>),
     Return(Call(Name("about"), <<Name("state")>>)),
     Attribute(Name("state"), "x", "Load")}

\* the first analyze has returned: its model is kept in first, and a second
\* Analyzer is constructed to analyse the same text
Construct ==
    /\ pc = "done"
    /\ run = 1
    /\ first' = [dataclasses |-> dataclasses, routes |-> routes,
                 function_calls |-> function_calls,
                 components_used |-> components_used,
                 attribute_usage |-> attribute_usage]
    /\ dataclasses' = <<>>
    /\ routes' = <<>>
    /\ current_route' = 0
    /\ function_calls' = EmptyDict
    /\ components_used' = EmptyDict
    /\ attribute_usage' = EmptyDict
    /\ pc' = "visit"
    /\ stack' = <<>>
    /\ pending' = <<>>
    /\ node' = Module
    /\ size' = [read |-> 0, classes |-> 0, fields |-> 0, defs |-> 0, stmts |-> 0]
    /\ report' = NoReport
    /\ run' = 2
    /\ code' = code

\* the first analyze has returned: its model is kept in first, and analyze is
\* called on the same Analyzer with the same text; analyze parses, visits and
\* resolves, and leaves the accumulators of the Analyzer as they are
AnalyzeAgain ==
    /\ pc = "done"
    /\ run = 1
    /\ first' = [dataclasses |-> dataclasses, routes |-> routes,
                 function_calls |-> function_calls,
                 components_used |-> components_used,
                 attribute_usage |-> attribute_usage]
    /\ pc' = "visit"
    /\ stack' = <<>>
    /\ pending' = <<>>
    /\ node' = Module
    /\ size' = [read |-> 0, classes |-> 0, fields |-> 0, defs |-> 0, stmts |-> 0]
    /\ run' = 2
    /\ code' = code
    /\ UNCHANGED <<dataclasses, routes, current_route, function_calls,
                   components_used, attribute_usage, report>>

InitTwice ==
    /\ Constructed
    /\ run = 1
    /\ code = <<>>
    /\ first = NoModel

NextTwice ==
    \/ \E n \in Reading(TwiceStatements) : visit_ClassDef(n)
    \/ \E n \in Reading(TwiceStatements) : visit_FunctionDef(n)
    \/ \E n \in Reading({EndOfBody}) : LeaveFunctionDef(n)
    \/ \E n \in Reading(TwiceStatements) : visit_Call(n)
    \/ \E n \in Reading(TwiceStatements) : visit_Return(n)
    \/ \E n \in Reading(TwiceStatements) : visit_Attribute(n)
    \/ \E n \in Reading({EndOfModule}) : ResolveDependencies(n)
    \/ Construct
    \/ AnalyzeAgain

SpecTwice == InitTwice /\ [][NextTwice]_vars

(* The order specification: a source text is analysed by one Analyzer,     *)
(* then the text with its record declarations moved to the front by a       *)
(* second one.                                                              *)

\* the statements of text with the class declarations first, the order
\* among the class declarations and among the other statements kept
DeclarationsFirst(text) ==
    LET IsClass(n) == n.t = "ClassDef"
        IsOther(n) == n.t # "ClassDef"
    IN  SelectSeq(text, IsClass) \o SelectSeq(text, IsOther)

\* the first analyze has returned: its model is kept in first, and a second
\* Analyzer is constructed to analyse the reordered text
ConstructReordered ==
    /\ pc = "done"
    /\ run = 1
    /\ first' = Snapshot
    /\ dataclasses' = <<>>
    /\ routes' = <<>>
    /\ current_route' = 0
    /\ function_calls' = EmptyDict
    /\ components_used' = EmptyDict
    /\ attribute_usage' = EmptyDict
    /\ pc' = "visit"
    /\ stack' = <<>>
    /\ pending' = <<>>
    /\ node' = Module
    /\ size' = [read |-> 0, classes |-> 0, fields |-> 0, defs |-> 0, stmts |-> 0]
    /\ report' = NoReport
    /\ run' = 2
    /\ code' = DeclarationsFirst(code)

OrderStatements ==
    {ClassDef("A", <<Name("dataclass")>>, <<>>, <<AnnAssign(Name("x"), Name("int"))>>),
     ClassDef("B", <<Name("dataclass")>>, <<>>,
              <<AnnAssign(Name("x"), Name("A")), AnnAssign(Name("y"), Name("int"))>>),
     FunctionDef("index", <<Name("route")>>, <<"state">>),
     FunctionDef("helper", <<>>, <<"state">>),
     Attribute(Name("state"), "x", "Load"),
     Attribute(Name("state"), "y", "Store")}

\* class declarations are statements of the module, not of a function body
NextOrder ==
    \/ \E n \in Reading(OrderStatements) : stack = <<>> /\ visit_ClassDef(n)
    \/ \E n \in Reading(OrderStatements) : visit_FunctionDef(n)
    \/ \E n \in Reading({EndOfBody}) : LeaveFunctionDef(n)
    \/ \E n \in Reading(OrderStatements) : visit_Attribute(n)
    \/ \E n \in Reading({EndOfModule}) : ResolveDependencies(n)
    \/ ConstructReordered

SpecOrder == InitTwice /\ [][NextOrder]_vars

----------------------------------------------------------------------------
(* Properties of the second pass and of the complexity score *)

\* the ClassInfo of record name r
Info(r) == DictGet(dataclasses, r)

\* the annotations of the fields of record r
FieldAnnotations(r) == {Info(r).fields[i][2] : i \in DOMAIN Info(r).fields}

\* the identifiers an annotation is built from
RECURSIVE Mentioned(_)
Mentioned(a) ==
    CASE a.t = "Name" -> {a.id}
      [] a.t = "Constant" -> {a.value}
      [] a.t = "Subscript" -> Mentioned(a.value) \cup Mentioned(a.slice)
      [] a.t = "Tuple" -> UNION {Mentioned(a.elts[i]) : i \in DOMAIN a.elts}
      [] a.t = "Attribute" -> {}
      [] OTHER -> {}

\* C1: once analyze has returned, a record R with a field annotated A,
\* list[A] or dict[str, A], A another known record declared before or after
\* R, has A among its dependencies; and every dependency of R is a known
\* record that one of R's annotations names, so int, str or an undeclared
\* class add nothing.
C1_FieldTypesBecomeDependencies ==
    pc = "done" =>
        \A r \in Known(dataclasses) :
            /\ \A a \in Known(dataclasses) \ {r} :
                  (FieldAnnotations(r) \cap
                       {Name(a), Subscript(Name("list"), Name(a)),
                        Subscript(Name("dict"), Tuple(<<Name("str"), Name(a)>>))} # {})
                  => a \in Info(r).dependencies
            /\ Info(r).dependencies \subseteq
                  Known(dataclasses) \cap UNION {Mentioned(f) : f \in FieldAnnotations(r)}

\* a record declared first whose dict[str, A] field made the later declared A
\* a dependency, next to a field of an undeclared class
C1_Witness ==
    /\ pc = "done"
    /\ Len(dataclasses) = 2
    /\ dataclasses[1][1] = "B"
    /\ FieldAnnotations("B") =
          {Subscript(Name("dict"), Tuple(<<Name("str"), Name("A")>>)), Name("Foo")}
    /\ Info("B").dependencies = {"A"}

\* C2: after the second pass no record is among its own dependencies, also
\* when a field is typed as the record itself, bare or inside list[...] or
\* dict[str, ...].
C2_NoSelfDependency ==
    pc = "done" => \A r \in Known(dataclasses) : r \notin Info(r).dependencies

\* record A with a field list[A] and a field dict[str, A], resolved
C2_Witness ==
    /\ pc = "done"
    /\ "A" \in Known(dataclasses)
    /\ FieldAnnotations("A") =
          {Subscript(Name("list"), Name("A")),
           Subscript(Name("dict"), Tuple(<<Name("str"), Name("A")>>))}
    /\ "A" \notin Info("A").dependencies

\* the base name of an annotation as rendered: what stands before any "["
RECURSIVE BaseName(_)
BaseName(a) ==
    CASE a.t = "Name" -> <<a.id>>
      [] a.t = "Constant" -> StrOfValue(a.value)
      [] a.t = "Subscript" -> BaseName(a.value)
      [] a.t = "Attribute" -> BaseName(a.value) \o <<".", a.attr>>
      [] OTHER -> a.text

\* the score table of the complexity scorer, in tenths: the tests are made
\* in this order, the built-in names on the base name folded to lower case,
\* the record names on the base name as written
TableScore(a) ==
    LET base == BaseName(a)
        folded == Lower(base)
    IN  IF folded \in {<<"int">>, <<"str">>, <<"bool">>, <<"float">>} THEN 1
        ELSE IF folded = <<"list">> THEN 10
        ELSE IF Len(base) = 1 /\ base[1] \in Known(dataclasses) THEN 10
        ELSE IF folded \in {<<"dict">>, <<"tuple">>, <<"set">>} THEN 100
        ELSE 1000

\* the same table with the record names compared without regard to case too
TableScoreFolded(a) ==
    LET folded == Lower(BaseName(a))
    IN  IF folded \in {<<"int">>, <<"str">>, <<"bool">>, <<"float">>} THEN 1
        ELSE IF folded = <<"list">> THEN 10
        ELSE IF \E k \in Known(dataclasses) : folded = Lower(<<k>>) THEN 10
        ELSE IF folded \in {<<"dict">>, <<"tuple">>, <<"set">>} THEN 100
        ELSE 1000

\* the sum of the table scores of the fields of record r, field by field
TableTotal(r) ==
    SumValues([f \in DictKeys(Info(r).fields) |-> TableScore(DictGet(Info(r).fields, f))])

TableTotalFolded(r) ==
    SumValues([f \in DictKeys(Info(r).fields) |->
                  TableScoreFolded(DictGet(Info(r).fields, f))])

\* C6 as stated: the report scores every field by the table (primitives 0.1,
\* list 1, known record 1, dict/tuple/set 10, anything else 100), every base
\* name compared without regard to case, and every record by the sum of its
\* fields' scores.
C6_ComplexityTableFolded ==
    report.found =>
        /\ \A i \in DOMAIN report.table :
              report.table[i][5] =
                  TableScoreFolded(DictGet(Info(report.table[i][1]).fields,
                                           report.table[i][2]))
        /\ \A i \in DOMAIN report.scores :
              report.scores[i][2] = TableTotalFolded(report.scores[i][1])

\* C6 as amended: the report scores every field by the table, the built-in
\* names compared without regard to case and a record name compared as it is
\* written, and every record by the sum of its fields' scores; the records
\* of the three complexity tests score exactly 0.4, 31.0 and 2.0.
C6_ComplexityTable ==
    /\ report.found =>
          /\ \A i \in DOMAIN report.table :
                report.table[i][5] =
                    TableScore(DictGet(Info(report.table[i][1]).fields, report.table[i][2]))
          /\ \A i \in DOMAIN report.scores :
                report.scores[i][2] = TableTotal(report.scores[i][1])
          /\ report.total = SumValues([r \in Known(dataclasses) |-> TableTotal(r)])
    /\ \A r \in Known(dataclasses) :
          LET types == DictValues(Info(r).fields)
              score == _calculate_dataclass_complexity(r, dataclasses)
          IN  /\ types = <<Name("int"), Name("str"), Name("bool"), Name("float")>>
                    => score = Float(4, 8)
              /\ types = <<Subscript(Name("list"), Name("int")),
                           Subscript(Name("dict"), Tuple(<<Name("str"), Name("int")>>)),
                           Subscript(Name("tuple"), Tuple(<<Name("int"), Name("str")>>)),
                           Subscript(Name("set"), Name("str"))>>
                    => score = Float(310, 0)
              /\ (types = <<Name("A"), Subscript(Name("list"), Name("A"))>>
                     /\ "A" \in Known(dataclasses))
                    => score = Float(20, 0)

\* a report on the records of the three complexity tests: four primitive
\* fields scored 0.4, one field each of list, dict, tuple and set scored
\* 31.0, one known-record field and one list field scored 2.0
C6_Witness ==
    /\ report.found
    /\ \E i \in DOMAIN report.scores : report.scores[i] = <<"Simple", 4>>
    /\ \E i \in DOMAIN report.scores : report.scores[i] = <<"Collections", 310>>
    /\ \E i \in DOMAIN report.scores : report.scores[i] = <<"B", 20>>
    /\ DictValues(Info("Simple").fields)
          = <<Name("int"), Name("str"), Name("bool"), Name("float")>>
    /\ Len(Info("Collections").fields) = 4
    /\ DictValues(Info("B").fields) = <<Name("A"), Subscript(Name("list"), Name("A"))>>
    /\ "A" \in Known(dataclasses)

----------------------------------------------------------------------------
(* Properties of the route model *)

\* name is an edge of the global call graph from the route named r
Edge(r, name) == r \in DOMAIN function_calls /\ name \in function_calls[r]

\* name is a called name of the route at index i, in both structures
Called(i, name) ==
    /\ name \in routes[i].function_calls
    /\ Edge(routes[i].name, name)

\* the node visited last is a call of a navigation component whose second
\* positional argument is a bare name or a string literal
LinkWithTarget ==
    /\ pc = "visit"
    /\ node.t = "Call"
    /\ get_function_name(node) \in {"Link", "Button", "SubmitButton"}
    /\ Len(node.args) >= 2
    /\ \/ node.args[2].t = "Name"
       \/ node.args[2].t = "Constant" /\ node.args[2].isstr

\* the text of that argument
TargetText == IF node.args[2].t = "Name" THEN node.args[2].id ELSE node.args[2].value

\* C3 as stated: every navigation component call visited while a route is
\* current, with a bare name or a string literal as second positional
\* argument, adds the target text to the route's called names and edges.
C3_AnyLiteralTarget ==
    (LinkWithTarget /\ current_route # 0) => Called(current_route, TargetText)

\* C3 as amended: the same for a bare name or a non-empty string literal;
\* the empty literal "" adds nothing.
C3_LinkTargetRecorded ==
    /\ (LinkWithTarget /\ current_route # 0 /\ TargetText # "")
          => Called(current_route, TargetText)
    /\ (LinkWithTarget /\ current_route # 0 /\ TargetText = "")
          => ~Called(current_route, TargetText)

\* a Button with a string literal target was visited inside route index
C3_Witness ==
    /\ LinkWithTarget
    /\ current_route # 0
    /\ node.args[2] = Constant("about", TRUE)
    /\ Called(current_route, "about")

\* the route whose body the node visited last stands in: the innermost
\* route declaration enclosing it, 0 when there is none
EnclosingRoute ==
    LET frames == {i \in DOMAIN stack : stack[i].route}
    IN  IF frames = {} THEN 0
        ELSE stack[CHOOSE i \in frames : \A j \in frames : j <= i].index

\* C4: every non-component function called in the body of a route, by a bare
\* name or as an attribute, and every function whose call is returned in the
\* body, is a called name of that route and an edge of the call graph.
C4_CallsOfBodyRecorded ==
    (pc = "visit" /\ EnclosingRoute # 0) =>
        /\ (/\ node.t = "Call"
            /\ Truthy(get_function_name(node))
            /\ get_function_name(node) \notin COMPONENTS)
              => Called(EnclosingRoute, get_function_name(node))
        /\ (/\ node.t = "Return"
            /\ node.value.t = "Call"
            /\ Truthy(get_function_name(node.value)))
              => Called(EnclosingRoute, get_function_name(node.value))

\* the decorator list holds the bare name route, or a call of the bare name
HasRouteMarker(n) ==
    \E i \in DOMAIN n.decorator_list :
        \/ n.decorator_list[i] = Name("route")
        \/ /\ n.decorator_list[i].t = "Call"
           /\ n.decorator_list[i].func = Name("route")

\* C9: a step appends to the route list exactly when it visits a function
\* declaration whose decorator list holds the bare name route or a call of
\* it, and then it appends one RouteHandler of that name; every other step
\* leaves the length of the list alone.
C9_RouteIffMarker ==
    [][IF size'.defs = size.defs + 1 /\ HasRouteMarker(node')
       THEN /\ Len(routes') = Len(routes) + 1
            /\ routes'[Len(routes')].name = node'.name
            /\ SubSeq(routes', 1, Len(routes)) = routes
       ELSE Len(routes') = Len(routes)]_vars

\* a function declared with @route("/") is the one entry of the route list
C9_Witness ==
    /\ node = FunctionDef("index", <<Call(Name("route"), <<Constant("/", TRUE)>>)>>,
                           <<"state">>)
    /\ Len(routes) = 1
    /\ routes[1].name = "index"

----------------------------------------------------------------------------
(* Properties of attribute usage and of the usage audits *)

FieldNames == {FieldNameAt[i] : i \in DOMAIN FieldNameAt}

\* record k is known and declares a field named f
Declares(k, f) ==
    /\ k \in Known(dataclasses)
    /\ f \in DictKeys(DictGet(dataclasses, k).fields)

\* this step visits the attribute reference node' = o.f with o a plain name
\* or an attribute reference
VisitsAttribute ==
    /\ pc = "visit"
    /\ node'.t = "Attribute"
    /\ node'.value.t \in {"Name", "Attribute"}

\* this step adds one to the counter of f of every record declaring f, and
\* leaves every other counter alone
CountsOnce(f) ==
    \A k \in ClassNames, g \in FieldNames :
        UsageCount(attribute_usage', k, g) =
            UsageCount(attribute_usage, k, g)
                + (IF g = f /\ Declares(k, g) THEN 1 ELSE 0)

CountsUnchanged ==
    \A k \in ClassNames, g \in FieldNames :
        UsageCount(attribute_usage', k, g) = UsageCount(attribute_usage, k, g)

\* C5 as stated: every attribute reference o.f visited while a route is
\* current, o a plain name or an attribute reference, adds f to the route's
\* fieldsUsed and adds one to the counter of f of every record discovered so
\* far that declares f, all other counters unchanged.
C5_EveryReferenceCounted ==
    [][(VisitsAttribute /\ current_route # 0)
          => /\ node'.attr \in routes'[current_route].fields_used
             /\ CountsOnce(node'.attr)]_vars

\* C5 as amended: the same for references that are read or written (context
\* Load or Store); the target of a del statement is not recorded, and no
\* other step changes a counter.
C5_ReadOrWrittenCounted ==
    [][IF VisitsAttribute /\ node'.ctx \in {"Load", "Store"}
       THEN /\ current_route # 0
                  => node'.attr \in routes'[current_route].fields_used
            /\ CountsOnce(node'.attr)
       ELSE /\ CountsUnchanged
            /\ \A i \in DOMAIN routes : routes'[i].fields_used = routes[i].fields_used]_vars

\* state.x.y was read in a route after A was declared with fields x and y:
\* both names are fields used by the route and both counters of A are one
C5_Witness ==
    /\ node = Attribute(Name("state"), "x", "Load")
    /\ size.stmts = 1
    /\ current_route # 0
    /\ routes[current_route].fields_used = {"x", "y"}
    /\ Declares("A", "x") /\ Declares("A", "y")
    /\ UsageCount(attribute_usage, "A", "x") = 1
    /\ UsageCount(attribute_usage, "A", "y") = 1

\* the set of the elements of a sequence
Range(xs) == {xs[i] : i \in DOMAIN xs}

\* the sum of the counters of the fields record k declares
RECURSIVE CountOver(_, _)
CountOver(k, fs) ==
    IF fs = {} THEN 0
    ELSE LET f == CHOOSE g \in fs : TRUE
         IN  UsageCount(attribute_usage, k, f) + CountOver(k, fs \ {f})

\* C7: the analysis reports a record as unused exactly when no other record's
\* dependencies hold its name and the counters of all its fields sum to zero.
C7_UnusedRecords ==
    report.found =>
        \A k \in Known(dataclasses) :
            k \in Range(report.unused_dataclasses)
              <=> /\ \A j \in Known(dataclasses) \ {k} :
                         k \notin DictGet(dataclasses, j).dependencies
                  /\ CountOver(k, DictKeys(DictGet(dataclasses, k).fields)) = 0

\* C8: the analysis lists Record.field as unused exactly when the counter of
\* that field of that record is zero, whatever is reported about the record.
C8_UnusedFields ==
    report.found =>
        /\ Range(report.unused_attributes) =
              {<<q[1], ".", q[2]>> :
                  q \in {p \in ClassNames \X FieldNames :
                            /\ Declares(p[1], p[2])
                            /\ UsageCount(attribute_usage, p[1], p[2]) = 0}}
        /\ Len(report.unused_attributes) = Cardinality(Range(report.unused_attributes))

\* a field of a record reported as used and a field of a record reported as
\* unused are both listed
C8_Witness ==
    /\ report.found
    /\ \E q \in Range(report.unused_attributes) :
           q[1] \notin Range(report.unused_dataclasses)
    /\ \E q \in Range(report.unused_attributes) :
           q[1] \in Range(report.unused_dataclasses)

----------------------------------------------------------------------------
(* Determinism of analyze *)

\* C10: when analyze has run twice on the same text, the records (names,
\* fields, dependencies), the route list (names, signatures, component
\* counts, fieldsUsed, calledNames) and the call-graph edges after the second
\* run equal those after the first.
C10_SameModelTwice ==
    (run = 2 /\ pc = "done") =>
        /\ dataclasses = first.dataclasses
        /\ routes = first.routes
        /\ function_calls = first.function_calls

----------------------------------------------------------------------------
(* Failure of analyze *)

\* C11: analyze fails only with a syntax error, raised before any traversal
\* step has run, and then the records, routes, call-graph edges, component
\* tally and attribute usage are what they were before the call.
C11_FailsOnlyOnSyntaxError ==
    pc \notin {"visit", "done"} =>
        /\ pc = "SyntaxError"
        /\ size.read = 0
        /\ dataclasses = <<>>
        /\ routes = <<>>
        /\ function_calls = EmptyDict
        /\ components_used = EmptyDict
        /\ attribute_usage = EmptyDict

----------------------------------------------------------------------------
(* Re-running the resolver *)

\* the dependencies of record k in the model kept in first
Before(k) == DictGet(first.dataclasses, k).dependencies

\* C12: a second run of the resolver with the record set unchanged leaves
\* every record's dependencies what the run before produced.
C12_ResolverIdempotent ==
    (pc = "done" /\ run = 3 /\ Known(dataclasses) = Known(first.dataclasses)) =>
        /\ \A k \in Known(dataclasses) : Info(k).dependencies = Before(k)
        /\ dataclasses = first.dataclasses

\* the resolver has run twice over two records that depend on each other
C12_Witness ==
    /\ pc = "done"
    /\ run = 3
    /\ Known(dataclasses) = {"A", "B"}
    /\ first.dataclasses = dataclasses
    /\ Info("A").dependencies = {"B"}
    /\ Info("B").dependencies = {"A"}

\* C13: when a record with a new name N has been added and the resolver run
\* again, every record that was there before has its dependencies unchanged
\* or grown by exactly N, grown only if one of its field types names N, and
\* no dependency it had is gone.
C13_AddedRecordFrame ==
    (pc = "done" /\ run = 3 /\ Known(dataclasses) # Known(first.dataclasses)) =>
        \E N \in Known(dataclasses) \ Known(first.dataclasses) :
            /\ Known(dataclasses) = Known(first.dataclasses) \cup {N}
            /\ \A k \in Known(first.dataclasses) :
                  /\ Before(k) \subseteq Info(k).dependencies
                  /\ Info(k).dependencies \in {Before(k), Before(k) \cup {N}}
                  /\ Info(k).dependencies # Before(k)
                        => N \in UNION {Mentioned(f) : f \in FieldAnnotations(k)}
                  /\ Info(k).fields = DictGet(first.dataclasses, k).fields

\* Foo was added after analyze had returned for a text declaring A with a
\* field of type Foo and a field of type B, and B: A's dependencies grew by
\* Foo and kept B, and B's are what they were
C13_Witness ==
    /\ pc = "done"
    /\ run = 3
    /\ Known(first.dataclasses) = {"A", "B"}
    /\ Known(dataclasses) = {"A", "B", "Foo"}
    /\ Before("A") = {"B"}
    /\ Info("A").dependencies = {"B", "Foo"}
    /\ Info("B").dependencies = Before("B")

----------------------------------------------------------------------------
(* The reports and the finished model *)

\* C14: a report generated after analyze has returned leaves the record map
\* with every dependencies set, the route list, the call-graph edge map and
\* the attribute-usage table as they were, the keys present in each mapping
\* included.
C14_ReportsReadOnly ==
    [][(pc = "done" /\ pc' = "done") =>
          /\ dataclasses' = dataclasses
          /\ routes' = routes
          /\ function_calls' = function_calls
          /\ DOMAIN attribute_usage' = DOMAIN attribute_usage
          /\ \A k \in DOMAIN attribute_usage :
                /\ DOMAIN attribute_usage'[k] = DOMAIN attribute_usage[k]
                /\ attribute_usage'[k] = attribute_usage[k]]_vars

----------------------------------------------------------------------------
(* Nested generic annotations *)

\* annotation f has record a somewhere among its generic arguments
NestsRecord(f, a) == f.t = "Subscript" /\ a \in Mentioned(f.slice)

\* the three shapes of one generic inside another, around record a
ListOfList(a) == Subscript(Name("list"), Subscript(Name("list"), Name(a)))

DictOfList(a) ==
    Subscript(Name("dict"), Tuple(<<Name("str"), Subscript(Name("list"), Name(a))>>))

DictOfDict(a) ==
    Subscript(Name("dict"),
              Tuple(<<Name("str"),
                      Subscript(Name("dict"), Tuple(<<Name("str"), Name(a)>>))>>))

\* C15 as stated: a field whose annotation nests another known record at
\* any depth of generic arguments makes that record a dependency of the
\* owner.
C15_NestedAtAnyDepth ==
    pc = "done" =>
        \A r \in Known(dataclasses) : \A a \in Known(dataclasses) \ {r} :
            (\E f \in FieldAnnotations(r) : NestsRecord(f, a))
                => a \in Info(r).dependencies

\* C15 as amended: a record nested one level down as the only argument of a
\* generic that is itself one of several arguments, as in dict[str, list[X]],
\* becomes a dependency; list[list[X]] is rendered as list and
\* dict[str, dict[str, X]] is split on every comma, so a record named only in
\* annotations of these two shapes does not become a dependency.
C15_NestedOneLevel ==
    pc = "done" =>
        \A r \in Known(dataclasses) : \A a \in Known(dataclasses) \ {r} :
            /\ DictOfList(a) \in FieldAnnotations(r) => a \in Info(r).dependencies
            /\ (\A f \in FieldAnnotations(r) :
                    a \in Mentioned(f) => f \in {ListOfList(a), DictOfDict(a)})
                  => a \notin Info(r).dependencies

\* B has the fields list[list[A]] and dict[str, dict[str, A]], A is a known
\* record, and the second pass has left B without dependencies
C15_Witness ==
    /\ pc = "done"
    /\ Known(dataclasses) = {"A", "B"}
    /\ FieldAnnotations("B") = {ListOfList("A"), DictOfDict("A")}
    /\ Info("B").dependencies = {}

----------------------------------------------------------------------------
(* The current-route context *)

\* C16: while the body of a route is being visited the route is the current
\* route, also after a function or a route declared inside the body has been
\* visited; the context is cleared when the whole body has been visited, and
\* no route is current once analyze has returned.
C16_RouteCurrentThroughBody ==
    /\ pc = "visit" => current_route = EnclosingRoute
    /\ pc = "done" => current_route = 0

\* this step visits a call, a return or an attribute reference
VisitsExpression == pc = "visit" /\ node'.t \in {"Call", "Return", "Attribute"}

\* this step adds no called name, no used field and no call-graph edge
AttributesNothing ==
    /\ Len(routes') = Len(routes)
    /\ \A i \in DOMAIN routes :
          /\ routes'[i].function_calls = routes[i].function_calls
          /\ routes'[i].fields_used = routes[i].fields_used
    /\ function_calls' = function_calls

\* C17 as stated: a function declared without a route marker adds no
\* RouteHandler, and the calls, returned calls and attribute references of
\* its body add nothing to any route's called names or used fields and no
\* call-graph edge.
C17_PlainFunctionsAttributeNothing ==
    [][/\ (size'.defs = size.defs + 1 /\ ~HasRouteMarker(node')) => AttributesNothing
       /\ (VisitsExpression /\ stack # <<>> /\ ~stack[Len(stack)].route)
             => AttributesNothing]_vars

\* C17 as amended: a function declared without a route marker adds no
\* RouteHandler, and when it is not declared inside the body of a route, the
\* calls, returned calls and attribute references of its body, outside any
\* route declared in it, add nothing to any route's called names or used
\* fields and no call-graph edge.
C17_PlainFunctionsOutsideRoutes ==
    [][/\ (size'.defs = size.defs + 1 /\ ~HasRouteMarker(node')) => AttributesNothing
       /\ (VisitsExpression /\ stack # <<>> /\ EnclosingRoute = 0)
             => AttributesNothing]_vars

\* helper() has been visited in the body of a function without a route
\* marker that follows a route, and the route has no called name
C17_Witness ==
    /\ node = Call(Name("helper"), <<>>)
    /\ Len(stack) = 1
    /\ ~stack[1].route
    /\ Len(routes) = 1
    /\ routes[1].function_calls = {}
    /\ function_calls = EmptyDict

----------------------------------------------------------------------------
(* Names declared twice *)

\* the index in the route list of the last declaration of route name r
LastDeclared(r) ==
    CHOOSE i \in DOMAIN routes :
        /\ routes[i].name = r
        /\ \A j \in DOMAIN routes : routes[j].name = r => j <= i

\* C18: in the finished model the call-graph edges of a route name hold only
\* the names called by the last declaration of that name: a later
\* declaration overwrites an earlier one in the name-keyed edge map, while
\* the route list keeps one entry per declaration.
C18_LaterDeclarationOverwrites ==
    pc = "done" =>
        \A r \in {routes[i].name : i \in DOMAIN routes} :
            (IF r \in DOMAIN function_calls THEN function_calls[r] ELSE {})
                = routes[LastDeclared(r)].function_calls

----------------------------------------------------------------------------
(* Component calls and called names *)

\* d[k] read without inserting: the tally of component kind k
Tally(d, k) == IF k \in DOMAIN d THEN d[k] ELSE 0

\* the call-graph edges of route name r
Edges(fc, r) == IF r \in DOMAIN fc THEN fc[r] ELSE {}

\* C19: a call of a component visited while a route is current adds one to
\* the route's count of that component, and no step adds the name of a
\* component to a route's called names or to the call-graph edges, also not
\* the step that visits a return statement whose value is a component call.
\* (No navigation target of the texts is itself the name of a component.)
C19_ComponentsNeverCalledNames ==
    [][/\ (/\ pc = "visit"
           /\ current_route # 0
           /\ node'.t = "Call"
           /\ get_function_name(node') \in COMPONENTS)
             => Tally(routes'[current_route].components, get_function_name(node'))
                  = Tally(routes[current_route].components, get_function_name(node')) + 1
       /\ \A i \in DOMAIN routes :
             /\ (routes'[i].function_calls \ routes[i].function_calls) \cap COMPONENTS = {}
             /\ (Edges(function_calls', routes[i].name)
                    \ Edges(function_calls, routes[i].name)) \cap COMPONENTS = {}]_vars

----------------------------------------------------------------------------
(* Order of declarations *)

\* C20: the attribute-usage counts of the finished model do not depend on
\* the order of the declarations: the text with its record declarations
\* moved before the routes gives every field of every record the count the
\* text as written gave it.
C20_CountsIndependentOfOrder ==
    (run = 2 /\ pc = "done") =>
        \A k \in ClassNames, f \in {"x", "y"} :
            UsageCount(attribute_usage, k, f) = UsageCount(first.attribute_usage, k, f)

----------------------------------------------------------------------------
(* The edge map and the route list *)

\* the names of the routes in the route list
RouteNames == {routes[i].name : i \in DOMAIN routes}

\* the called names of all the entries of the route list named r
CalledBy(r) ==
    UNION {routes[i].function_calls : i \in {j \in DOMAIN routes : routes[j].name = r}}

\* C22: in every state during and after the traversal, the call-graph edges
\* of every route name are the union of the called names of all the entries
\* of the route list with that name, and the edge map has no key that is not
\* the name of an entry of the route list.
C22_EdgesAgreeWithRoutes ==
    /\ \A r \in RouteNames : Edges(function_calls, r) = CalledBy(r)
    /\ DOMAIN function_calls \subseteq RouteNames

\* the traversal is over for a text that declares one route name twice, each
\* declaration calling a name the other does not: the edges of the name are
\* the names called by both
C22_Witness ==
    /\ pc = "done"
    /\ Len(routes) = 2
    /\ routes[1].name = routes[2].name
    /\ routes[1].function_calls \ routes[2].function_calls # {}
    /\ routes[2].function_calls \ routes[1].function_calls # {}
    /\ function_calls[routes[1].name]
          = routes[1].function_calls \cup routes[2].function_calls

----------------------------------------------------------------------------
(* Termination *)

\* C21: every analyze call on a text that parses terminates: the second
\* pass, whose recursive extraction is called on ever shorter strings,
\* finishes for every set of records, records that refer to each other or
\* to themselves included. Every step of the call shortens what is left of
\* the text or of the strings, so the call is over after finitely many
\* steps; the claim is that it is then over because analyze has returned,
\* every call of the second pass made and no frame left open.
C21_AnalyzeTerminates ==
    pc \notin {"visit", "resolve"} =>
        /\ pc = "done"
        /\ stack = <<>>
        /\ pending = <<>>

====
